---- MODULE Spec2Model ----
(***************************************************************************)
(* StorageManager of the CDM object model (cdm/storage/storage_manager.py):*)
(* the namespace registry (mount, unmount, mount_from_config and the fetch *)
(* operations) and the corpus path resolver (create_absolute_corpus_path,  *)
(* create_relative_corpus_path, split_namespace_path).                     *)
(*                                                                         *)
(* A Python str is a sequence of one-character strings.  Python's None and *)
(* a raised exception are distinguished one-element sequences whose only   *)
(* element is no character of the alphabet, so that every value a Python   *)
(* expression can yield is comparable with every other.                    *)
(***************************************************************************)
EXTENDS Integers, Sequences, FiniteSets, TLC

VARIABLES
    default_namespace,          \* self.default_namespace
    namespace_adapters,         \* self._namespace_adapters (OrderedDict)
    namespace_folders,          \* self._namespace_folders (OrderedDict)
    system_defined_namespaces,  \* self._system_defined_namespaces
    app_id,                     \* self._corpus.app_id ("" while unset)
    mount_order,                \* history: mounted namespaces, by time of their current mount
    calls,                      \* history: number of calls made on the manager
    last,                       \* history: the last call, its arguments and its result
    writer,                     \* the writes a mount, unmount or import under way has still to make
    in_path,                    \* resolver run: the object_path argument
    in_obj,                     \* resolver run: the obj / relative_to argument
    abs_out,                    \* resolver run: result of create_absolute_corpus_path
    abs_log,                    \* resolver run: messages it logged
    rel_out,                    \* resolver run: result of create_relative_corpus_path
    split_out,                  \* resolver run: result of split_namespace_path
    again_out,                  \* resolver run: result of create_absolute_corpus_path on abs_out
    pc                          \* resolver run: position of the caller

regvars == <<namespace_adapters, namespace_folders, system_defined_namespaces,
             app_id, mount_order, calls, last, writer>>
pathvars == <<in_path, in_obj, abs_out, abs_log, rel_out, split_out, again_out, pc>>
vars == <<default_namespace, regvars, pathvars>>

-----------------------------------------------------------------------------
(* Bounds *)

MaxLen == 4         \* longest object_path drawn
MaxFolderLen == 2   \* longest context folder_path drawn
MaxCalls == 3       \* calls made on one manager
MaxEntries == 2     \* adapter entries of a configuration document drawn

-----------------------------------------------------------------------------
(* Python values *)

None == <<"None">>
IndexError == <<"IndexError">>
TypeError == <<"TypeError">>
AttributeError == <<"AttributeError">>
Exceptions == {IndexError, TypeError, AttributeError}

\* bool(x) of an Optional[str]
Truthy(x) == x # None /\ x # <<>>

\* x or y
PyOr(x, y) == IF Truthy(x) THEN x ELSE y

IsStr(x) == x # None /\ x \notin Exceptions

Chars == {"n", "/", ".", ":"}

StrsUpTo(k) == UNION {[1..m -> Chars] : m \in 0..k}

\* s.startswith(pre)
StartsWith(s, pre) == Len(s) >= Len(pre) /\ SubSeq(s, 1, Len(pre)) = pre

\* sub in s
Contains(s, sub) ==
    \E i \in 1..(Len(s) - Len(sub) + 1) : SubSeq(s, i, i + Len(sub) - 1) = sub

\* s.find(c), one-based; 0 where Python yields -1
Find(s, c) ==
    IF \E i \in 1..Len(s) : s[i] = c
    THEN CHOOSE i \in 1..Len(s) : s[i] = c /\ \A j \in 1..(i - 1) : s[j] # c
    ELSE 0

\* s[k:] for a zero-based k
From(s, k) == SubSeq(s, k + 1, Len(s))

-----------------------------------------------------------------------------
(* The path resolver *)

\* the status_message of _contains_unsupported_path_format; "" when the path seems OK
status_message(path) ==
    IF StartsWith(path, <<".", "/">>) \/ StartsWith(path, <<".", "\\">>)
    THEN "The path should not start with ./"
    ELSE IF Contains(path, <<".", ".", "/">>) \/ Contains(path, <<".", ".", "\\">>)
    THEN "The path should not contain ../"
    ELSE IF Contains(path, <<"/", ".", "/">>) \/ Contains(path, <<"\\", ".", "\\">>)
    THEN "The path should not contain /./"
    ELSE ""

_contains_unsupported_path_format(path) == status_message(path) # ""

\* faulty variant: the text is split at its last ":"
split_namespace_path_at_last(object_path) ==
    IF Find(object_path, ":") # 0
    THEN LET namespace_index ==
                 CHOOSE i \in 1..Len(object_path) :
                     object_path[i] = ":" /\ \A j \in (i + 1)..Len(object_path) : object_path[j] # ":"
         IN  <<SubSeq(object_path, 1, namespace_index - 1), From(object_path, namespace_index)>>
    ELSE <<<<>>, object_path>>

split_namespace_path(object_path) ==
    LET namespace_index == Find(object_path, ":")
    IN  IF namespace_index # 0
        THEN <<SubSeq(object_path, 1, namespace_index - 1), From(object_path, namespace_index)>>
        ELSE <<<<>>, object_path>>

\* The obj argument: absent, a container (namespace and folder_path of its
\* own) or another object (namespace and folder_path of obj.in_document).
NoObj == [kind |-> "none", namespace |-> None, folder_path |-> None]

\* '{}:{}'.format(final_namespace, path) if final_namespace else path
Qualified(final_namespace, path) ==
    IF Truthy(final_namespace) THEN final_namespace \o <<":">> \o path ELSE path

\* the prefix after the trailing-slash normalisation
with_trailing_slash(prefix) ==
    IF Truthy(prefix) /\ prefix[Len(prefix)] # "/" THEN prefix \o <<"/">> ELSE prefix

\* faulty variant: the path namespace is held against the default namespace when the object has none
namespace_mismatch_default(path_namespace, namespace_from_obj) ==
    Truthy(path_namespace) /\ path_namespace # PyOr(namespace_from_obj, default_namespace)

\* the test that rejects a relative path whose namespace is not the object's
namespace_mismatch(path_namespace, namespace_from_obj) ==
    Truthy(path_namespace) /\ path_namespace # namespace_from_obj

\* faulty variant: the default namespace comes first
final_namespace_relative_default_first(path_namespace, namespace_from_obj) ==
    PyOr(default_namespace, PyOr(namespace_from_obj, path_namespace))

\* final_namespace of a relative path
final_namespace_relative(path_namespace, namespace_from_obj) ==
    PyOr(namespace_from_obj, PyOr(path_namespace, default_namespace))

\* final_namespace of an absolute path
final_namespace_absolute(path_namespace, namespace_from_obj) ==
    PyOr(path_namespace, PyOr(namespace_from_obj, default_namespace))

MismatchWarning == "The namespace found on the path does not match the namespace found on the object"
SlashWarning == "Expected path prefix to end in /, but it didn't. Appended the /"

\* The value returned (or the exception raised) and the messages logged on the way
Outcome(result, logged) == [result |-> result, logged |-> logged]

create_absolute_corpus_path(object_path, obj) ==
    IF _contains_unsupported_path_format(object_path)
    THEN Outcome(None, <<status_message(object_path)>>)
    ELSE
    LET path_tuple == split_namespace_path(object_path)
        has_obj == obj.kind # "none"
        prefix0 == IF has_obj THEN obj.folder_path ELSE None
        namespace_from_obj == IF has_obj THEN obj.namespace ELSE None
    IN  IF Truthy(prefix0) /\ _contains_unsupported_path_format(prefix0)
        THEN Outcome(None, <<status_message(prefix0)>>)
        ELSE
        LET prefix1 == with_trailing_slash(prefix0)
            log1 == IF prefix1 # prefix0 THEN <<SlashWarning>> ELSE <<>>
        IN  IF path_tuple[2] = <<>> THEN Outcome(IndexError, log1)
            ELSE IF path_tuple[2][1] # "/"
            THEN LET prefix == IF ~has_obj THEN <<"/">> ELSE prefix1
                 IN  IF namespace_mismatch(path_tuple[1], namespace_from_obj)
                     THEN Outcome(None, Append(log1, MismatchWarning))
                     ELSE IF prefix = None THEN Outcome(TypeError, log1)
                     ELSE Outcome(Qualified(final_namespace_relative(path_tuple[1], namespace_from_obj),
                                            prefix \o path_tuple[2]), log1)
            ELSE Outcome(Qualified(final_namespace_absolute(path_tuple[1], namespace_from_obj),
                                   path_tuple[2]), log1)

create_relative_corpus_path(object_path, relative_to) ==
    LET new_path == create_absolute_corpus_path(object_path, relative_to).result
    IN  IF new_path \in Exceptions THEN new_path
        ELSE IF relative_to.kind = "object" THEN AttributeError
        ELSE
        LET namespace_string == IF relative_to.kind # "none" /\ Truthy(relative_to.namespace)
                                THEN relative_to.namespace \o <<":">> ELSE <<>>
        IN  IF namespace_string = <<>> THEN new_path
            ELSE IF new_path = None THEN AttributeError
            ELSE IF StartsWith(new_path, namespace_string)
            THEN LET stripped == From(new_path, Len(namespace_string))
                 IN  IF Truthy(relative_to.folder_path) /\ StartsWith(stripped, relative_to.folder_path)
                     THEN From(stripped, Len(relative_to.folder_path))
                     ELSE stripped
            ELSE new_path

-----------------------------------------------------------------------------
(* The namespace registry: an OrderedDict is the sequence of its items *)

Keys(d) == {d[i].key : i \in 1..Len(d)}

IndexOf(d, k) == CHOOSE i \in 1..Len(d) : d[i].key = k

\* d[k]
Get(d, k) == d[IndexOf(d, k)].value

\* d[k] = v: an existing key keeps its position, a new key goes last
Put(d, k, v) ==
    IF k \in Keys(d)
    THEN [d EXCEPT ![IndexOf(d, k)] = [key |-> k, value |-> v]]
    ELSE Append(d, [key |-> k, value |-> v])

\* d.pop(k, None)
Pop(d, k) ==
    IF k \in Keys(d)
    THEN SubSeq(d, 1, IndexOf(d, k) - 1) \o SubSeq(d, IndexOf(d, k) + 1, Len(d))
    ELSE d

\* a sequence without the element x
Without(s, x) == SelectSeq(s, LAMBDA y : y # x)

local == <<"l", "o", "c", "a", "l">>
cdm == <<"c", "d", "m">>

\* An adapter is its kind tag (adapter._type) and its configuration.  The
\* absent adapter (None) is the only falsy one.
NoAdapter == [type |-> "none", config |-> "none"]
LocalAdapter == [type |-> "local", config |-> "cwd"]
GithubAdapter == [type |-> "github", config |-> "default"]
ResourceAdapter == [type |-> "resource", config |-> "default"]

\* CdmFolderDefinition(ctx, '') with namespace and folder_path set by mount;
\* born tells the objects created by different calls apart
RootFolder(namespace, born) ==
    [namespace |-> namespace, folder_path |-> <<"/">>, born |-> born]

\* faulty variant: the mount empties the system-defined set
MountOnClearsSystem(r, namespace, adapter, n) ==
    IF adapter # NoAdapter
    THEN [adapters |-> Put(r.adapters, namespace, adapter),
          folders |-> Put(r.folders, namespace, RootFolder(namespace, n)),
          system |-> {},
          order |-> Append(Without(r.order, namespace), namespace)]
    ELSE r

\* faulty variant: the mount leaves the system-defined set alone
MountOnKeepsSystem(r, namespace, adapter, n) ==
    IF adapter # NoAdapter
    THEN [adapters |-> Put(r.adapters, namespace, adapter),
          folders |-> Put(r.folders, namespace, RootFolder(namespace, n)),
          system |-> r.system,
          order |-> Append(Without(r.order, namespace), namespace)]
    ELSE r

\* The registry after mount(namespace, adapter) on the registry r, in call number n
MountOn(r, namespace, adapter, n) ==
    IF adapter # NoAdapter
    THEN [adapters |-> Put(r.adapters, namespace, adapter),
          folders |-> Put(r.folders, namespace, RootFolder(namespace, n)),
          system |-> r.system \ {namespace},
          order |-> Append(Without(r.order, namespace), namespace)]
    ELSE r

EmptyRegistry == [adapters |-> <<>>, folders |-> <<>>, system |-> {}, order |-> <<>>]

\* __init__: the two default mounts, then both namespaces marked system-defined
Constructed ==
    LET r == MountOn(MountOn(EmptyRegistry, local, LocalAdapter, 0), cdm, GithubAdapter, 0)
    IN  [r EXCEPT !.system = r.system \cup {local, cdm}]

Registry == [adapters |-> namespace_adapters, folders |-> namespace_folders,
             system |-> system_defined_namespaces, order |-> mount_order]

SetRegistry(r) ==
    /\ namespace_adapters' = r.adapters
    /\ namespace_folders' = r.folders
    /\ system_defined_namespaces' = r.system
    /\ mount_order' = r.order

NotRun == <<"NotRun">>

NoCall == [op |-> "__init__"]

RegInit ==
    /\ namespace_adapters = Constructed.adapters
    /\ namespace_folders = Constructed.folders
    /\ system_defined_namespaces = Constructed.system
    /\ mount_order = Constructed.order
    /\ app_id = ""
    /\ calls = 0
    /\ last = NoCall
    /\ writer = <<>>

\* faulty variant: no fallback mount for 'cdm'
UnmountOnNoFallback(r, namespace, n) ==
    [adapters |-> Pop(r.adapters, namespace),
     folders |-> Pop(r.folders, namespace),
     system |-> r.system \ {namespace},
     order |-> Without(r.order, namespace)]

\* faulty variant: the root folder is not removed
UnmountOnKeepsFolder(r, namespace, n) ==
    LET popped == [adapters |-> Pop(r.adapters, namespace),
                   folders |-> r.folders,
                   system |-> r.system \ {namespace},
                   order |-> Without(r.order, namespace)]
    IN  IF namespace = cdm THEN MountOn(popped, namespace, ResourceAdapter, n) ELSE popped

\* The registry after unmount(namespace) on the registry r, in call number n
UnmountOn(r, namespace, n) ==
    LET popped == [adapters |-> Pop(r.adapters, namespace),
                   folders |-> Pop(r.folders, namespace),
                   system |-> r.system \ {namespace},
                   order |-> Without(r.order, namespace)]
    IN  IF namespace = cdm THEN MountOn(popped, namespace, ResourceAdapter, n) ELSE popped

fetch_adapter(namespace) ==
    IF namespace \in Keys(namespace_adapters) THEN Get(namespace_adapters, namespace) ELSE NoAdapter

NoFolder == [namespace |-> None, folder_path |-> None, born |-> -1]

fetch_root_folder(namespace) ==
    IF Truthy(namespace) /\ namespace \in Keys(namespace_folders)
    THEN Get(namespace_folders, namespace) ELSE NoFolder

-----------------------------------------------------------------------------
(* The adapter capability, as far as the manager uses it *)

\* An adapter-native path: the configurations of the adapters that recognise
\* it, and the corpus path they translate it to
AdapterPaths == {[roots |-> R, rest |-> <<"/", "n">>] :
                    R \in {{}, {"c1"}, {"default", "c1"}}}

\* adapter.create_corpus_path(adapter_path); empty when the adapter does not recognise it
create_corpus_path(adapter, adapter_path) ==
    IF adapter.config \in adapter_path.roots THEN adapter_path.rest ELSE <<>>

\* adapter.create_adapter_path(corpus_path)
create_adapter_path(adapter, corpus_path) == [root |-> adapter.config, path |-> corpus_path]

\* what adapter.fetch_config() holds; EmptyBlob for a null or empty text
EmptyBlob == [type |-> "", config |-> ""]

adapter_fetch_config(adapter) ==
    IF adapter.config = "" THEN EmptyBlob ELSE [type |-> adapter.type, config |-> adapter.config]

-----------------------------------------------------------------------------
(* The operations that read the registry *)

RECURSIVE last_translation(_, _)
\* faulty variant: the loop does not break, the last adapter that recognises the path wins
last_translation(i, adapter_path) ==
    IF i > Len(namespace_adapters) THEN None
    ELSE LET later == last_translation(i + 1, adapter_path)
             result == create_corpus_path(namespace_adapters[i].value, adapter_path)
         IN  IF later # None THEN later
             ELSE IF Truthy(result) THEN namespace_adapters[i].key \o <<":">> \o result
             ELSE None

RECURSIVE first_translation(_, _)
\* the loop of adapter_path_to_corpus_path over the items from position i on
first_translation(i, adapter_path) ==
    IF i > Len(namespace_adapters) THEN None
    ELSE LET result == create_corpus_path(namespace_adapters[i].value, adapter_path)
         IN  IF Truthy(result) THEN namespace_adapters[i].key \o <<":">> \o result
             ELSE first_translation(i + 1, adapter_path)

adapter_path_to_corpus_path(adapter_path) == first_translation(1, adapter_path)

NoAdapterPath == [root |-> "none", path |-> None]

\* faulty variant: the default namespace is not used
corpus_path_to_adapter_path_no_default(corpus_path) ==
    LET path_tuple == split_namespace_path(corpus_path)
        namespace_adapter == fetch_adapter(path_tuple[1])
    IN  IF namespace_adapter = NoAdapter THEN NoAdapterPath
        ELSE create_adapter_path(namespace_adapter, path_tuple[2])

corpus_path_to_adapter_path(corpus_path) ==
    LET path_tuple == split_namespace_path(corpus_path)
        namespace == PyOr(path_tuple[1], default_namespace)
        namespace_adapter == fetch_adapter(namespace)
    IN  IF namespace_adapter = NoAdapter THEN NoAdapterPath
        ELSE create_adapter_path(namespace_adapter, path_tuple[2])

\* faulty variant: system-defined namespaces are exported
skipped_in_config_keeps_system(i) ==
    \/ namespace_adapters[i].value.type = "resource"
    \/ adapter_fetch_config(namespace_adapters[i].value) = EmptyBlob

\* whether fetch_config leaves the item at position i out
skipped_in_config(i) ==
    \/ namespace_adapters[i].value.type = "resource"
    \/ namespace_adapters[i].key \in system_defined_namespaces
    \/ adapter_fetch_config(namespace_adapters[i].value) = EmptyBlob

RECURSIVE adapters_array(_)
\* the adapters_array that fetch_config builds from the items from position i on
adapters_array(i) ==
    IF i > Len(namespace_adapters) THEN <<>>
    ELSE IF skipped_in_config(i) THEN adapters_array(i + 1)
    ELSE LET json_config == adapter_fetch_config(namespace_adapters[i].value)
         IN  <<[type |-> json_config.type, config |-> json_config.config,
                namespace |-> namespace_adapters[i].key]>> \o adapters_array(i + 1)

\* the document that fetch_config serialises
fetch_config ==
    [appId |-> app_id, defaultNamespace |-> default_namespace, adapters |-> adapters_array(1)]

-----------------------------------------------------------------------------
(* mount_from_config *)

\* item.get(field) of a missing field
Absent == "absent"

\* faulty variant: one more tag is registered
registered_adapter_types_with_foo == {"local", "adls", "remote", "github", "foo"}

registered_adapter_types == {"local", "adls", "remote", "github"}

\* json.dumps(item): the serialised text of an entry, told apart from the entry itself
json_dumps(item) == [json |-> item]

\* item.get(field) is truthy, for a field that holds text (type, config, appId)
HasField(v) == v \notin {Absent, ""}

RECURSIVE import_items_abort(_, _, _, _)
\* faulty variant: an entry that lacks a field ends the import
import_items_abort(r, items, i, n) ==
    IF i > Len(items) THEN [registry |-> r, unrecognized |-> <<>>]
    ELSE LET item == items[i]
         IN  IF ~Truthy(item.namespace) \/ ~HasField(item.config) \/ ~HasField(item.type)
             THEN [registry |-> r, unrecognized |-> <<>>]
             ELSE IF item.type \notin registered_adapter_types
             THEN LET rest == import_items_abort(r, items, i + 1, n)
                  IN  [registry |-> rest.registry, unrecognized |-> <<json_dumps(item)>> \o rest.unrecognized]
             ELSE import_items_abort(MountOn(r, item.namespace, [type |-> item.type, config |-> item.config], n),
                                     items, i + 1, n)

RECURSIVE import_items(_, _, _, _)
\* the loop over adapter_config_json['adapters'] from position i on: the registry
\* and the unrecognized_adapters it ends with
import_items(r, items, i, n) ==
    IF i > Len(items) THEN [registry |-> r, unrecognized |-> <<>>]
    ELSE LET item == items[i]
         IN  IF ~Truthy(item.namespace) \/ ~HasField(item.config) \/ ~HasField(item.type)
             THEN import_items(r, items, i + 1, n)
             ELSE IF item.type \notin registered_adapter_types
             THEN LET rest == import_items(r, items, i + 1, n)
                  IN  [registry |-> rest.registry, unrecognized |-> <<json_dumps(item)>> \o rest.unrecognized]
             ELSE import_items(MountOn(r, item.namespace, [type |-> item.type, config |-> item.config], n),
                               items, i + 1, n)

-----------------------------------------------------------------------------
(* The calls made on a manager *)

Call(record) ==
    /\ calls < MaxCalls
    /\ calls' = calls + 1
    /\ last' = record
    /\ UNCHANGED <<pathvars, writer>>

MountNamespaces == {local, cdm, <<"n">>, <<>>}
MountAdapters == {NoAdapter, [type |-> "adls", config |-> ""],
                  [type |-> "remote", config |-> "c1"], [type |-> "resource", config |-> "c2"]}

Mount(namespace, adapter) ==
    /\ Call([op |-> "mount", namespace |-> namespace, adapter |-> adapter])
    /\ SetRegistry(MountOn(Registry, namespace, adapter, calls + 1))
    /\ UNCHANGED <<default_namespace, app_id>>

Unmount(namespace) ==
    /\ Call([op |-> "unmount", namespace |-> namespace])
    /\ SetRegistry(UnmountOn(Registry, namespace, calls + 1))
    /\ UNCHANGED <<default_namespace, app_id>>

\* the owner assigns the public attribute default_namespace
SetDefaultNamespace(namespace) ==
    /\ Call([op |-> "set_default_namespace", namespace |-> namespace])
    /\ default_namespace' = namespace
    /\ UNCHANGED <<namespace_adapters, namespace_folders, system_defined_namespaces,
                   mount_order, app_id>>

\* mount_from_config(adapter_config, does_return_error_list): adapter_config is the
\* empty string (NoDoc) or the JSON text of a document
NoDoc == [empty |-> TRUE, appId |-> Absent, defaultNamespace |-> None, adapters |-> <<>>]

MountFromConfig(doc, does_return_error_list) ==
    IF doc.empty
    THEN /\ Call([op |-> "mount_from_config", doc |-> doc, flag |-> does_return_error_list,
                  result |-> None])
         /\ UNCHANGED <<default_namespace, namespace_adapters, namespace_folders,
                        system_defined_namespaces, mount_order, app_id>>
    ELSE LET done == import_items(Registry, doc.adapters, 1, calls + 1)
         IN  /\ Call([op |-> "mount_from_config", doc |-> doc, flag |-> does_return_error_list,
                      result |-> IF does_return_error_list THEN done.unrecognized ELSE None])
             /\ app_id' = IF HasField(doc.appId) THEN doc.appId ELSE app_id
             /\ default_namespace' = IF Truthy(doc.defaultNamespace)
                                     THEN doc.defaultNamespace ELSE default_namespace
             /\ SetRegistry(done.registry)

ReadOnly == UNCHANGED <<default_namespace, namespace_adapters, namespace_folders,
                        system_defined_namespaces, mount_order, app_id>>

FetchAdapter(namespace) ==
    /\ Call([op |-> "fetch_adapter", namespace |-> namespace, result |-> fetch_adapter(namespace)])
    /\ ReadOnly

FetchRootFolder(namespace) ==
    /\ Call([op |-> "fetch_root_folder", namespace |-> namespace,
             result |-> fetch_root_folder(namespace)])
    /\ ReadOnly

FetchConfig ==
    /\ Call([op |-> "fetch_config", result |-> fetch_config])
    /\ ReadOnly

AdapterPathToCorpusPath(adapter_path) ==
    /\ Call([op |-> "adapter_path_to_corpus_path", adapter_path |-> adapter_path,
             result |-> adapter_path_to_corpus_path(adapter_path)])
    /\ ReadOnly

CorpusPathToAdapterPath(corpus_path) ==
    /\ Call([op |-> "corpus_path_to_adapter_path", corpus_path |-> corpus_path,
             result |-> corpus_path_to_adapter_path(corpus_path)])
    /\ ReadOnly

\* the adapter entries and the documents drawn
Entries ==
    {[namespace |-> <<"n">>, type |-> "local", config |-> "c1"],
     [namespace |-> <<"m">>, type |-> "adls", config |-> "c2"],
     [namespace |-> cdm, type |-> "github", config |-> "c1"],
     [namespace |-> <<"n">>, type |-> Absent, config |-> "c1"],
     [namespace |-> None, type |-> "local", config |-> "c1"],
     [namespace |-> <<"m">>, type |-> "remote", config |-> Absent],
     [namespace |-> <<"n">>, type |-> "github", config |-> ""],
     [namespace |-> <<"n">>, type |-> "foo", config |-> "c2"],
     [namespace |-> <<"m">>, type |-> "bar", config |-> "c1"],
     [namespace |-> <<"n">>, type |-> "foo", config |-> Absent]}

ListsUpTo(k) == UNION {[1..m -> Entries] : m \in 0..k}

DocsUpTo(k) ==
    {[empty |-> FALSE, appId |-> h.appId, defaultNamespace |-> h.defaultNamespace, adapters |-> l] :
        h \in {[appId |-> Absent, defaultNamespace |-> None],
                [appId |-> "app", defaultNamespace |-> <<"n">>]},
        l \in ListsUpTo(k)}

DefaultsSet == {None, <<>>, <<"n">>}
CorpusPaths == {<<"/", "n">>, <<":", "/", "n">>, <<"n", ":", "/", "n">>, cdm \o <<":", "/", "n">>}

RegNext ==
    \/ \E namespace \in MountNamespaces, adapter \in MountAdapters : Mount(namespace, adapter)
    \/ \E namespace \in MountNamespaces : Unmount(namespace)
    \/ \E namespace \in DefaultsSet : SetDefaultNamespace(namespace)
    \/ \E doc \in DocsUpTo(1) \cup {NoDoc}, flag \in BOOLEAN : MountFromConfig(doc, flag)
    \/ \E namespace \in MountNamespaces \cup {None} : FetchAdapter(namespace)
    \/ \E namespace \in MountNamespaces \cup {None} : FetchRootFolder(namespace)
    \/ FetchConfig
    \/ \E adapter_path \in AdapterPaths : AdapterPathToCorpusPath(adapter_path)
    \/ \E corpus_path \in CorpusPaths : CorpusPathToAdapterPath(corpus_path)

PathIdle ==
    /\ in_path = <<>>
    /\ in_obj = NoObj
    /\ abs_out = NotRun
    /\ abs_log = <<>>
    /\ rel_out = NotRun
    /\ split_out = NotRun
    /\ again_out = NotRun
    /\ pc = "idle"

Init == RegInit /\ default_namespace = None /\ PathIdle

Next == RegNext

Spec == Init /\ [][Next]_vars

-----------------------------------------------------------------------------
(* Imports: one configuration document read by a manager that has just been *)
(* constructed or has taken one mount or unmount since.                      *)

\* one entry without type and two well-formed entries with new namespaces
ExampleDoc ==
    [empty |-> FALSE, appId |-> Absent, defaultNamespace |-> None,
     adapters |-> <<[namespace |-> <<"n">>, type |-> Absent, config |-> "c1"],
                    [namespace |-> <<"n">>, type |-> "local", config |-> "c1"],
                    [namespace |-> <<"m">>, type |-> "adls", config |-> "c2"]>>]

\* two entries of unknown type around a well-formed entry of a known type
MixedDoc ==
    [empty |-> FALSE, appId |-> Absent, defaultNamespace |-> None,
     adapters |-> <<[namespace |-> <<"n">>, type |-> "foo", config |-> "c2"],
                    [namespace |-> <<"m">>, type |-> "adls", config |-> "c2"],
                    [namespace |-> <<"m">>, type |-> "bar", config |-> "c1"]>>]

ImportDocs == DocsUpTo(MaxEntries) \cup {NoDoc, ExampleDoc, MixedDoc}

ImportStarts ==
    {Constructed, UnmountOn(Constructed, cdm, 0), UnmountOn(Constructed, local, 0),
     MountOn(Constructed, <<"n">>, [type |-> "remote", config |-> "c1"], 0)}

ImportInit ==
    /\ \E r \in ImportStarts :
          /\ namespace_adapters = r.adapters
          /\ namespace_folders = r.folders
          /\ system_defined_namespaces = r.system
          /\ mount_order = r.order
    /\ app_id = ""
    /\ calls = 0
    /\ last = NoCall
    /\ writer = <<>>
    /\ default_namespace = None
    /\ PathIdle

ImportNext ==
    /\ calls = 0
    /\ \E doc \in ImportDocs, flag \in BOOLEAN : MountFromConfig(doc, flag)

SpecImport == ImportInit /\ [][ImportNext]_vars

-----------------------------------------------------------------------------
(* Unserialised use: mount, unmount and mount_from_config make their writes *)
(* one at a time, and a reader may run between any two of them.             *)

Write(step, namespace, adapter, text, n) ==
    [step |-> step, namespace |-> namespace, adapter |-> adapter, text |-> text, n |-> n]

\* the writes of mount(namespace, adapter) made in call number n
MountSteps(namespace, adapter, n) ==
    IF adapter # NoAdapter
    THEN <<Write("put_adapter", namespace, adapter, "", n),
           Write("put_folder", namespace, adapter, "", n),
           Write("discard_system", namespace, adapter, "", n)>>
    ELSE <<>>

\* the writes of unmount(namespace) made in call number n
UnmountSteps(namespace, n) ==
    <<Write("pop_adapter", namespace, NoAdapter, "", n),
      Write("pop_folder", namespace, NoAdapter, "", n),
      Write("discard_system", namespace, NoAdapter, "", n)>>
    \o (IF namespace = cdm THEN MountSteps(namespace, ResourceAdapter, n) ELSE <<>>)

RECURSIVE ItemSteps(_, _, _)
\* the writes of the loop over adapter_config_json['adapters'] from position i on
ItemSteps(items, i, n) ==
    IF i > Len(items) THEN <<>>
    ELSE LET item == items[i]
         IN  IF ~Truthy(item.namespace) \/ ~HasField(item.config) \/ ~HasField(item.type)
                \/ item.type \notin registered_adapter_types
             THEN ItemSteps(items, i + 1, n)
             ELSE MountSteps(item.namespace, [type |-> item.type, config |-> item.config], n)
                  \o ItemSteps(items, i + 1, n)

\* the writes of mount_from_config(adapter_config) made in call number n
ImportSteps(doc, n) ==
    IF doc.empty THEN <<>>
    ELSE (IF HasField(doc.appId)
          THEN <<Write("set_app_id", None, NoAdapter, doc.appId, n)>> ELSE <<>>)
         \o (IF Truthy(doc.defaultNamespace)
             THEN <<Write("set_default_namespace", doc.defaultNamespace, NoAdapter, "", n)>>
             ELSE <<>>)
         \o ItemSteps(doc.adapters, 1, n)

\* a call starts: its writes are still to be made
Begin(record) ==
    /\ writer = <<>>
    /\ calls < MaxCalls
    /\ calls' = calls + 1
    /\ last' = record
    /\ UNCHANGED <<default_namespace, namespace_adapters, namespace_folders,
                   system_defined_namespaces, app_id, mount_order, pathvars>>

BeginMount(namespace, adapter) ==
    /\ Begin([op |-> "mount", namespace |-> namespace, adapter |-> adapter])
    /\ writer' = MountSteps(namespace, adapter, calls + 1)

BeginUnmount(namespace) ==
    /\ Begin([op |-> "unmount", namespace |-> namespace])
    /\ writer' = UnmountSteps(namespace, calls + 1)

BeginMountFromConfig(doc) ==
    /\ Begin([op |-> "mount_from_config", doc |-> doc, flag |-> FALSE, result |-> None])
    /\ writer' = ImportSteps(doc, calls + 1)

\* the call under way makes its next write
WriteStep ==
    /\ writer # <<>>
    /\ LET w == Head(writer)
       IN  /\ namespace_adapters' =
                 IF w.step = "put_adapter" THEN Put(namespace_adapters, w.namespace, w.adapter)
                 ELSE IF w.step = "pop_adapter" THEN Pop(namespace_adapters, w.namespace)
                 ELSE namespace_adapters
           /\ mount_order' =
                 IF w.step = "put_adapter" THEN Append(Without(mount_order, w.namespace), w.namespace)
                 ELSE IF w.step = "pop_adapter" THEN Without(mount_order, w.namespace)
                 ELSE mount_order
           /\ namespace_folders' =
                 IF w.step = "put_folder"
                 THEN Put(namespace_folders, w.namespace, RootFolder(w.namespace, w.n))
                 ELSE IF w.step = "pop_folder" THEN Pop(namespace_folders, w.namespace)
                 ELSE namespace_folders
           /\ system_defined_namespaces' =
                 IF w.step = "discard_system" THEN system_defined_namespaces \ {w.namespace}
                 ELSE system_defined_namespaces
           /\ app_id' = IF w.step = "set_app_id" THEN w.text ELSE app_id
           /\ default_namespace' =
                 IF w.step = "set_default_namespace" THEN w.namespace ELSE default_namespace
    /\ writer' = Tail(writer)
    /\ UNCHANGED <<calls, last, pathvars>>

\* a reader calls fetch_adapter(namespace) and fetch_root_folder(namespace); during
\* tells whether a mount, unmount or import was under way
Read(namespace) ==
    /\ calls < MaxCalls
    /\ calls' = calls + 1
    /\ last' = [op |-> "read", namespace |-> namespace,
                adapter |-> fetch_adapter(namespace), folder |-> fetch_root_folder(namespace),
                during |-> writer # <<>>]
    /\ UNCHANGED <<default_namespace, namespace_adapters, namespace_folders,
                   system_defined_namespaces, app_id, mount_order, writer, pathvars>>

StepAdapters == {NoAdapter, [type |-> "remote", config |-> "c1"]}

StepsNext ==
    \/ \E namespace \in MountNamespaces, adapter \in StepAdapters : BeginMount(namespace, adapter)
    \/ \E namespace \in MountNamespaces : BeginUnmount(namespace)
    \/ \E doc \in DocsUpTo(1) \cup {NoDoc} : BeginMountFromConfig(doc)
    \/ WriteStep
    \/ \E namespace \in MountNamespaces : Read(namespace)

SpecSteps == Init /\ [][StepsNext]_vars

-----------------------------------------------------------------------------
(* Resolver runs: one call of create_absolute_corpus_path on drawn inputs,  *)
(* and create_relative_corpus_path on its result or on the same inputs.     *)

CtxNamespaces == {<<>>, <<"n">>}
CtxFolders == {None} \cup StrsUpTo(MaxFolderLen)
Objs == {NoObj} \cup
        [kind : {"container", "object"}, namespace : CtxNamespaces, folder_path : CtxFolders]
DefaultNamespaces == {None, <<"n", "n">>}

foo_bar_txt == <<"f", "o", "o", "/", "b", "a", "r", ".", "t", "x", "t">>
data_folder == [kind |-> "container", namespace |-> local,
                folder_path |-> <<"/", "d", "a", "t", "a", "/">>]

cdm_foo_schema_json == cdm \o <<":", "/", "f", "o", "o", "/", "s", "c", "h", "e", "m", "a", ".",
                                "j", "s", "o", "n">>
foo_bar == <<"/", "f", "o", "o", "/", "b", "a", "r">>

\* the inputs drawn: every short string in every context, and the documented examples
Inputs == (StrsUpTo(MaxLen) \X Objs \X DefaultNamespaces)
          \cup {<<foo_bar_txt, data_folder, None>>,
                <<cdm_foo_schema_json, NoObj, None>>, <<foo_bar, NoObj, None>>}

PathInit ==
    /\ RegInit
    /\ \E t \in Inputs : in_path = t[1] /\ in_obj = t[2] /\ default_namespace = t[3]
    /\ abs_out = NotRun
    /\ abs_log = <<>>
    /\ rel_out = NotRun
    /\ split_out = NotRun
    /\ again_out = NotRun
    /\ pc = "start"

\* a = create_absolute_corpus_path(p, obj)
MakeAbsolute ==
    /\ pc = "start"
    /\ abs_out' = create_absolute_corpus_path(in_path, in_obj).result
    /\ abs_log' = create_absolute_corpus_path(in_path, in_obj).logged
    /\ pc' = "absolute"
    /\ UNCHANGED <<default_namespace, regvars, in_path, in_obj, rel_out, split_out, again_out>>

\* create_relative_corpus_path(a, obj) on the path a just returned
MakeRelativeOfAbsolute ==
    /\ pc = "absolute"
    /\ IsStr(abs_out)
    /\ rel_out' = create_relative_corpus_path(abs_out, in_obj)
    /\ pc' = "round_trip"
    /\ UNCHANGED <<default_namespace, regvars, in_path, in_obj, abs_out, abs_log,
                   split_out, again_out>>

\* create_relative_corpus_path(p, obj)
MakeRelative ==
    /\ pc = "start"
    /\ rel_out' = create_relative_corpus_path(in_path, in_obj)
    /\ pc' = "relative"
    /\ UNCHANGED <<default_namespace, regvars, in_path, in_obj, abs_out, abs_log,
                   split_out, again_out>>

\* create_absolute_corpus_path(a, obj) on the path a just returned
MakeAbsoluteAgain ==
    /\ pc = "absolute"
    /\ IsStr(abs_out)
    /\ again_out' = create_absolute_corpus_path(abs_out, in_obj).result
    /\ pc' = "again"
    /\ UNCHANGED <<default_namespace, regvars, in_path, in_obj, abs_out, abs_log,
                   rel_out, split_out>>

\* split_namespace_path(p)
SplitNamespacePath ==
    /\ pc = "start"
    /\ split_out' = split_namespace_path(in_path)
    /\ pc' = "split"
    /\ UNCHANGED <<default_namespace, regvars, in_path, in_obj, abs_out, abs_log,
                   rel_out, again_out>>

PathNext ==
    \/ MakeAbsolute
    \/ MakeRelativeOfAbsolute
    \/ MakeRelative
    \/ MakeAbsoluteAgain
    \/ SplitNamespacePath

SpecPath == PathInit /\ [][PathNext]_vars

-----------------------------------------------------------------------------
(* Claims about the path resolver, checked under SpecPath *)

\* the namespace prefix and the remainder of the path drawn
InNamespace == IF Find(in_path, ":") = 0 THEN <<>> ELSE SubSeq(in_path, 1, Find(in_path, ":") - 1)
InRemainder == IF Find(in_path, ":") = 0 THEN in_path ELSE From(in_path, Find(in_path, ":"))
InRelative == InRemainder # <<>> /\ InRemainder[1] # "/"
InAbsolute == InRemainder # <<>> /\ InRemainder[1] = "/"
CtxNamespace == IF in_obj.kind = "none" THEN <<>> ELSE in_obj.namespace

\* p has a ../ or /./ segment, or a ./ segment at its start or right after its namespace: prefix
HasTraversalSegment(p) ==
    \/ Contains(p, <<".", ".", "/">>)
    \/ Contains(p, <<"/", ".", "/">>)
    \/ StartsWith(p, <<".", "/">>)
    \/ Find(p, ":") # 0 /\ StartsWith(From(p, Find(p, ":")), <<".", "/">>)

\* C1: every path with a ../, ./ or /./ segment is reported as unsupported and
\* create_absolute_corpus_path returns None for it, whatever the context object.
C1_TraversalRejected ==
    (pc = "absolute" /\ HasTraversalSegment(in_path))
        => (_contains_unsupported_path_format(in_path) /\ abs_out = None)

WellFormedRelative(p) == ~HasTraversalSegment(p) /\ ~_contains_unsupported_path_format(p)

\* the path part of an absolute corpus path
PathPart(a) == IF Find(a, ":") = 0 THEN a ELSE From(a, Find(a, ":"))

\* C2: round trip: for a well-formed relative path p and a context whose folder path
\* is a prefix of the absolute path, making the absolute path relative again gives p.
C2_RoundTrip ==
    (/\ pc = "round_trip"
     /\ WellFormedRelative(in_path) /\ InRelative
     /\ in_obj.kind = "container"
     /\ IsStr(in_obj.folder_path)
     /\ StartsWith(in_obj.folder_path, <<"/">>)
     /\ StartsWith(PathPart(abs_out), in_obj.folder_path))
        => rel_out = in_path

FirstNonEmpty(a, b, c) ==
    IF a \notin {<<>>, None} THEN a ELSE IF b \notin {<<>>, None} THEN b ELSE c

\* the prefix a relative remainder is appended to
CtxPrefix ==
    IF in_obj.kind = "none" THEN <<"/">>
    ELSE IF in_obj.folder_path = <<>> THEN <<>>
    ELSE IF in_obj.folder_path[Len(in_obj.folder_path)] = "/" THEN in_obj.folder_path
    ELSE Append(in_obj.folder_path, "/")

\* C8: every path create_absolute_corpus_path returns is final_ns:prefix+remainder for
\* a relative remainder, final_ns the first non-empty of (context, path, default)
\* namespace, and final_ns:remainder for an absolute one, final_ns the first non-empty
\* of (path, context, default) namespace; it has no namespace only when all are empty.
C8_NamespaceResolution ==
    (pc = "absolute" /\ IsStr(abs_out)) =>
        LET final_ns == IF InRelative
                        THEN FirstNonEmpty(CtxNamespace, InNamespace, default_namespace)
                        ELSE FirstNonEmpty(InNamespace, CtxNamespace, default_namespace)
            path == IF InRelative THEN CtxPrefix \o InRemainder ELSE InRemainder
        IN  /\ final_ns \notin {<<>>, None} => abs_out = final_ns \o <<":">> \o path
            /\ final_ns \in {<<>>, None} => abs_out = path
            /\ (abs_out = path) =>
                  \/ \A x \in {CtxNamespace, InNamespace, default_namespace} : x \in {<<>>, None}
                  \/ final_ns \o <<":">> \o path = path

\* C8 witness: ("foo/bar.txt", namespace "local", folder_path "/data/") gives "local:/data/foo/bar.txt"
C8_Witness ==
    /\ pc = "absolute"
    /\ in_path = foo_bar_txt
    /\ in_obj = data_folder
    /\ abs_out = local \o <<":", "/", "d", "a", "t", "a", "/">> \o foo_bar_txt

\* the call failed with the namespace-mismatch warning
MismatchFailure == abs_out = None /\ abs_log # <<>> /\ abs_log[Len(abs_log)] = MismatchWarning

\* the path and the context prefix passed the checks that precede the namespace check
PassedValidation ==
    /\ status_message(in_path) = ""
    /\ (in_obj.kind # "none" /\ Truthy(in_obj.folder_path)) => status_message(in_obj.folder_path) = ""

\* C9: a call that reaches the namespace check fails with the namespace mismatch exactly
\* when the remainder is relative and the path has a non-empty namespace that differs
\* from the context namespace (also when it equals the default namespace and there is
\* no context); an absolute path never fails so and keeps its own namespace.
C9_NamespaceMismatch ==
    pc = "absolute" =>
        /\ MismatchFailure => (InRelative /\ InNamespace # <<>> /\ InNamespace # CtxNamespace)
        /\ (PassedValidation /\ InRelative /\ InNamespace # <<>> /\ InNamespace # CtxNamespace)
              => MismatchFailure
        /\ (PassedValidation /\ InAbsolute /\ InNamespace # <<>>)
              => (IsStr(abs_out) /\ abs_out = InNamespace \o <<":">> \o InRemainder)

\* C9 witness: a relative path whose namespace is the default namespace, without context
C9_Witness ==
    /\ pc = "absolute"
    /\ in_obj = NoObj
    /\ InRelative
    /\ InNamespace = default_namespace
    /\ MismatchFailure

\* C11: the resolver never raises: create_absolute_corpus_path returns a path or None
\* for every string and every context, and create_relative_corpus_path returns None
\* when create_absolute_corpus_path fails for a context that carries a namespace.
C11_ResolverTotal ==
    /\ pc = "absolute" => abs_out \notin Exceptions
    /\ (/\ pc = "relative"
        /\ in_obj.kind = "container"
        /\ Truthy(in_obj.namespace)
        /\ create_absolute_corpus_path(in_path, in_obj).result = None) => rel_out = None

\* C13: split_namespace_path(s) is a pair for every s; if s has a ":" the pair is the
\* text before the first ":" and the text after it (namespace + ":" + remainder is s and
\* the namespace has no ":"), else it is ("", s); "cdm:/foo/schema.json" gives
\* ("cdm", "/foo/schema.json") and "/foo/bar" gives ("", "/foo/bar").
C13_SplitOnFirstColon ==
    pc = "split" =>
        /\ Len(split_out) = 2
        /\ Len(split_out[1]) + Len(split_out[2]) \in {Len(in_path) - 1, Len(in_path)}
        /\ Contains(in_path, <<":">>) =>
              /\ split_out[1] \o <<":">> \o split_out[2] = in_path
              /\ ~Contains(split_out[1], <<":">>)
        /\ ~Contains(in_path, <<":">>) => split_out = <<<<>>, in_path>>
        /\ in_path = cdm_foo_schema_json =>
              split_out = <<cdm, <<"/", "f", "o", "o", "/", "s", "c", "h", "e", "m", "a", ".",
                                   "j", "s", "o", "n">>>>
        /\ in_path = foo_bar => split_out = <<<<>>, foo_bar>>

\* C13 witness: a text with two ":" is split at the first
C13_Witness ==
    /\ pc = "split"
    /\ in_path = <<"n", ":", "n", ":">>
    /\ split_out = <<<<"n">>, <<"n", ":">>>>

\* C14: every path create_absolute_corpus_path returns is well-formed: it has no ../
\* and no /./ segment and its path part does not begin with ./, for every input path
\* and every context object.
C14_ResultWellFormed ==
    (pc = "absolute" /\ IsStr(abs_out)) =>
        /\ ~Contains(abs_out, <<".", ".", "/">>)
        /\ ~Contains(abs_out, <<"/", ".", "/">>)
        /\ ~StartsWith(PathPart(abs_out), <<".", "/">>)

\* C15: the context prefix is validated as it is after the trailing-slash normalisation:
\* the call returns no path when the prefix that is concatenated with the remainder
\* (the folder path with "/" appended where it did not end in "/") breaks the
\* traversal rules, as a folder path ending in ".." does.
C15_NormalizedPrefixValidated ==
    (/\ pc = "absolute"
     /\ in_obj.kind # "none"
     /\ Truthy(in_obj.folder_path)
     /\ HasTraversalSegment(CtxPrefix)) => ~IsStr(abs_out)

\* C20: a path a that create_absolute_corpus_path(p, ctx) returns is a fixed point:
\* create_absolute_corpus_path(a, ctx) returns a, for every p, ctx and default namespace.
C20_AbsoluteIdempotent ==
    pc = "again" => again_out = abs_out

-----------------------------------------------------------------------------
(* Claims about the registry, checked under Spec *)

\* the tags mount_from_config knows
KnownTags == {"local", "adls", "remote", "github"}

Mounted == Keys(namespace_adapters)
Resolvable(namespace) ==
    fetch_adapter(namespace) # NoAdapter /\ fetch_root_folder(namespace) # NoFolder
Unresolvable(namespace) ==
    fetch_adapter(namespace) = NoAdapter /\ fetch_root_folder(namespace) = NoFolder
Namespaces == MountNamespaces \cup {<<"m">>}

\* C3: right after mount(ns, a) with a non-empty adapter a, fetch_adapter(ns) is a and
\* fetch_root_folder(ns) is a root container created by that call, with namespace ns
\* and folder_path "/", for every namespace string ns.
C3_MountThenFetch ==
    (last.op = "mount" /\ last.adapter # NoAdapter) =>
        /\ fetch_adapter(last.namespace) = last.adapter
        /\ fetch_root_folder(last.namespace) =
              [namespace |-> last.namespace, folder_path |-> <<"/">>, born |-> calls]

\* the namespaces a document's well-formed entries of a known type name
ImportedBy(doc) ==
    {doc.adapters[i].namespace : i \in
        {j \in 1..Len(doc.adapters) :
            /\ Truthy(doc.adapters[j].namespace)
            /\ doc.adapters[j].config \notin {Absent, ""}
            /\ doc.adapters[j].type \in registered_adapter_types}}

\* C4: 'cdm' is resolvable in every state, and holds the fallback resource adapter right
\* after unmount('cdm'); any other namespace is unresolvable right after its unmount
\* and becomes resolvable again only by a mount or an import that names it.
C4_CdmAlwaysResolvable ==
    /\ [](/\ Resolvable(cdm)
          /\ (last.op = "unmount" /\ last.namespace = cdm)
                => fetch_adapter(cdm) = ResourceAdapter
          /\ (last.op = "unmount" /\ last.namespace # cdm) => Unresolvable(last.namespace))
    /\ [][\A ns \in Namespaces :
             (fetch_adapter(ns) = NoAdapter /\ fetch_adapter(ns)' # NoAdapter) =>
                 \/ last'.op = "mount" /\ last'.namespace = ns
                 \/ last'.op = "mount_from_config" /\ ns \in ImportedBy(last'.doc)]_vars

\* C4 witness: right after unmount('cdm') the namespace holds the resource adapter
C4_Witness ==
    /\ last.op = "unmount"
    /\ last.namespace = cdm
    /\ fetch_adapter(cdm) = ResourceAdapter
    /\ fetch_root_folder(cdm).born = calls

\* the positions of the registry whose adapter fetch_config exports
Exported ==
    {i \in 1..Len(namespace_adapters) :
        /\ namespace_adapters[i].key \notin system_defined_namespaces
        /\ namespace_adapters[i].value.type # "resource"
        /\ namespace_adapters[i].value.config # ""}

\* C5: the adapters of fetch_config are exactly the mounted namespaces that are not
\* system-defined, whose adapter is no resource adapter and has a non-empty config, in
\* registry order, each with its own namespace; a fresh manager exports none.
C5_ExportedAdapters ==
    LET exported == fetch_config.adapters
    IN  /\ Len(exported) = Cardinality(Exported)
        /\ \A j \in 1..Len(exported) :
              \E i \in Exported :
                 /\ Cardinality({k \in Exported : k < i}) = j - 1
                 /\ exported[j].namespace = namespace_adapters[i].key
                 /\ exported[j].type = namespace_adapters[i].value.type
                 /\ exported[j].config = namespace_adapters[i].value.config
        /\ \A j \in 1..Len(exported) :
              /\ exported[j].namespace \notin system_defined_namespaces
              /\ exported[j].type # "resource"
        /\ calls = 0 => exported = <<>>
        /\ last.op = "fetch_config" => last.result.adapters = exported

\* C5 witness: an export that lists a user adapter but not 'cdm' after unmount('cdm')
C5_Witness ==
    /\ last.op = "fetch_config"
    /\ last.result.adapters # <<>>
    /\ cdm \notin system_defined_namespaces
    /\ \A j \in 1..Len(last.result.adapters) : last.result.adapters[j].namespace # cdm

\* the positions of the registry whose adapter recognises the adapter path
Recognisers(adapter_path) ==
    {i \in 1..Len(namespace_adapters) :
        create_corpus_path(namespace_adapters[i].value, adapter_path) # <<>>}

Translation(i, adapter_path) ==
    namespace_adapters[i].key \o <<":">>
        \o create_corpus_path(namespace_adapters[i].value, adapter_path)

\* the position in mount_order of the namespace at registry position i
MountTime(i) == CHOOSE t \in 1..Len(mount_order) : mount_order[t] = namespace_adapters[i].key

\* C7 as stated: the result is the translation of the recognising adapter that was
\* mounted earliest in time, also after a namespace was mounted again.
C7_EarliestMountedWins ==
    last.op = "adapter_path_to_corpus_path" =>
        LET rec == Recognisers(last.adapter_path)
        IN  IF rec = {} THEN last.result = None
            ELSE \E i \in rec :
                    /\ \A k \in rec : MountTime(i) <= MountTime(k)
                    /\ last.result = Translation(i, last.adapter_path)

\* C7 amended: the result is the translation of the recognising adapter that comes first
\* in the registry, where a namespace mounted again while mounted keeps its position;
\* adapters that do not recognise the path play no part; None if none recognises it.
C7_FirstInRegistryWins ==
    last.op = "adapter_path_to_corpus_path" =>
        LET rec == Recognisers(last.adapter_path)
        IN  IF rec = {} THEN last.result = None
            ELSE \E i \in rec :
                    /\ \A k \in rec : i <= k
                    /\ last.result = Translation(i, last.adapter_path)

\* C7 witness: two adapters recognise the path and the first in the registry, which
\* wins, was mounted after the other
C7_Witness ==
    /\ last.op = "adapter_path_to_corpus_path"
    /\ \E i, k \in Recognisers(last.adapter_path) :
          /\ i < k
          /\ MountTime(i) > MountTime(k)
          /\ last.result = Translation(i, last.adapter_path)

\* C10: the namespace is the non-empty text before the first ":" of c, else the default
\* namespace; if no adapter is mounted there (or no default is set) the result is the
\* failure, otherwise what the mounted adapter makes of the remainder of c.
C10_CorpusPathToAdapterPath ==
    last.op = "corpus_path_to_adapter_path" =>
        LET c == last.corpus_path
            colon == Find(c, ":")
            namespace == IF colon > 1 THEN SubSeq(c, 1, colon - 1) ELSE default_namespace
            remainder == IF colon > 0 THEN SubSeq(c, colon + 1, Len(c)) ELSE c
        IN  IF namespace \in Mounted
            THEN last.result = [root |-> Get(namespace_adapters, namespace).config, path |-> remainder]
            ELSE last.result = NoAdapterPath

\* C10 witness: a path without namespace resolved by the adapter of the default namespace
C10_Witness ==
    /\ last.op = "corpus_path_to_adapter_path"
    /\ Find(last.corpus_path, ":") = 0
    /\ default_namespace = <<"n">>
    /\ last.result # NoAdapterPath

\* C16: in every state the namespaces with an adapter are the namespaces with a root
\* container, no namespace has two entries, every root container has its key as
\* namespace and "/" as folder_path; a mount creates both halves of the entry in the
\* same call and an unmount removes both.
C16_RegistryPairing ==
    /\ [](/\ Keys(namespace_adapters) = Keys(namespace_folders)
          /\ Len(namespace_adapters) = Cardinality(Keys(namespace_adapters))
          /\ Len(namespace_folders) = Cardinality(Keys(namespace_folders))
          /\ \A i \in 1..Len(namespace_folders) :
                /\ namespace_folders[i].value.namespace = namespace_folders[i].key
                /\ namespace_folders[i].value.folder_path = <<"/">>)
    /\ [][/\ (last'.op = "mount" /\ last'.adapter # NoAdapter) =>
                /\ Get(namespace_adapters', last'.namespace) = last'.adapter
                /\ Get(namespace_folders', last'.namespace).born = calls'
          /\ (last'.op = "unmount" /\ last'.namespace # cdm) =>
                /\ last'.namespace \notin Keys(namespace_adapters')
                /\ last'.namespace \notin Keys(namespace_folders')]_vars

\* C16 witness: a namespace was mounted and unmounted again, and a new one is mounted
C16_Witness ==
    /\ last.op = "mount"
    /\ last.namespace = <<"n">>
    /\ local \notin Mounted
    /\ Keys(namespace_adapters) = {cdm, <<"n">>}
    /\ Keys(namespace_folders) = {cdm, <<"n">>}

\* the items of an OrderedDict other than the one of the namespace
Others(d, namespace) == SelectSeq(d, LAMBDA item : item.key # namespace)

\* C17: mount(ns, adapter) with the empty adapter changes nothing (both maps, the root
\* container of ns included, the system-defined set and the default namespace); with
\* an adapter it changes the entries of ns only and takes only ns from the
\* system-defined set.
C17_MountFrame ==
    [][last'.op = "mount" =>
          IF last'.adapter = NoAdapter
          THEN /\ namespace_adapters' = namespace_adapters
               /\ namespace_folders' = namespace_folders
               /\ system_defined_namespaces' = system_defined_namespaces
               /\ default_namespace' = default_namespace
          ELSE /\ Others(namespace_adapters', last'.namespace)
                     = Others(namespace_adapters, last'.namespace)
               /\ Others(namespace_folders', last'.namespace)
                     = Others(namespace_folders, last'.namespace)
               /\ system_defined_namespaces' = system_defined_namespaces \ {last'.namespace}
               /\ default_namespace' = default_namespace]_vars

\* C17 witness: mount('local', None) on the fresh manager: 'local' keeps its adapter,
\* its root container and its place in the system-defined set
C17_Witness ==
    /\ last.op = "mount"
    /\ last.adapter = NoAdapter
    /\ last.namespace = local
    /\ fetch_adapter(local) = LocalAdapter
    /\ fetch_root_folder(local).born = 0
    /\ local \in system_defined_namespaces

\* the namespaces fetch_config exports
ExportedNamespaces == {fetch_config.adapters[j].namespace : j \in 1..Len(fetch_config.adapters)}

\* C19: the system-defined set is {'local', 'cdm'}, both mounted, right after
\* construction; it only shrinks, it holds mounted namespaces only, and a namespace
\* that a mount (with an adapter), an import or an unmount names leaves it for good;
\* 'local' mounted by the user with an adapter that has a config is exported.
C19_SystemDefinedSet ==
    /\ [](/\ calls = 0 =>
                /\ system_defined_namespaces = {local, cdm}
                /\ Resolvable(local) /\ Resolvable(cdm)
          /\ system_defined_namespaces \subseteq Mounted
          /\ (/\ local \in Mounted \ system_defined_namespaces
              /\ fetch_adapter(local).type # "resource"
              /\ fetch_adapter(local).config # "") => local \in ExportedNamespaces)
    /\ [][/\ system_defined_namespaces' \subseteq system_defined_namespaces
          /\ (last'.op = "mount" /\ last'.adapter # NoAdapter) =>
                last'.namespace \notin system_defined_namespaces'
          /\ last'.op = "unmount" => last'.namespace \notin system_defined_namespaces'
          /\ (last'.op = "mount_from_config" /\ ~last'.doc.empty) =>
                \A j \in 1..Len(last'.doc.adapters) :
                    (/\ Truthy(last'.doc.adapters[j].namespace)
                     /\ last'.doc.adapters[j].config \notin {Absent, ""}
                     /\ last'.doc.adapters[j].type \in KnownTags) =>
                        last'.doc.adapters[j].namespace \notin system_defined_namespaces']_vars

\* C19 witness: fetch_config exports the 'local' that the user mounted, while 'cdm' is
\* still system-defined
C19_Witness ==
    /\ last.op = "fetch_config"
    /\ system_defined_namespaces = {cdm}
    /\ \E j \in 1..Len(last.result.adapters) : last.result.adapters[j].namespace = local

-----------------------------------------------------------------------------
(* Claims about unserialised use, checked under SpecSteps *)

\* the two fetches of the read disagree about whether the namespace is mounted
Disagree == (last.adapter = NoAdapter) # (last.folder = NoFolder)

\* C18: a reader that runs while no mount, unmount or import is under way (each of
\* them one exclusive step for it) never sees fetch_adapter(ns) and
\* fetch_root_folder(ns) disagree about whether ns is mounted, nor 'cdm' unresolvable;
\* only a reader that runs between the writes of one of them can.
C18_SerializedReadersAgree ==
    (last.op = "read" /\ ~last.during) =>
        /\ ~Disagree
        /\ last.namespace = cdm => (last.adapter # NoAdapter /\ last.folder # NoFolder)

-----------------------------------------------------------------------------
(* Claims about imports, checked under SpecImport *)

WellFormedEntry(item) ==
    /\ Truthy(item.namespace)
    /\ item.config \notin {Absent, ""}
    /\ item.type \in registered_adapter_types

\* the last well-formed entry of the document for the namespace
LastEntryFor(doc, namespace) ==
    LET js == {j \in 1..Len(doc.adapters) :
                  WellFormedEntry(doc.adapters[j]) /\ doc.adapters[j].namespace = namespace}
    IN  doc.adapters[CHOOSE j \in js : \A k \in js : k <= j]

\* C6: an import mounts every entry that has namespace, config and a known type, one
\* registry entry for each of their namespaces, configured from its config; it mounts
\* nothing for an entry that lacks one of the fields, and it runs to the end
\* (entries after a skipped one are still mounted).
C6_ImportIsolatesEntries ==
    [][(last'.op = "mount_from_config" /\ ~last'.doc.empty) =>
          LET doc == last'.doc
              good == ImportedBy(doc)
          IN  /\ Keys(namespace_adapters') = Mounted \cup good
              /\ Len(namespace_adapters') = Cardinality(Mounted \cup good)
              /\ \A ns \in good :
                    Get(namespace_adapters', ns) =
                        [type |-> LastEntryFor(doc, ns).type, config |-> LastEntryFor(doc, ns).config]
              /\ \A ns \in Mounted \ good :
                    Get(namespace_adapters', ns) = Get(namespace_adapters, ns)
              /\ calls' = calls + 1]_vars

\* C6 witness: one entry without type and two well-formed entries add two namespaces
C6_Witness ==
    /\ last.op = "mount_from_config"
    /\ last.doc = ExampleDoc
    /\ Mounted = {local, cdm, <<"n">>, <<"m">>}
    /\ fetch_adapter(<<"n">>) = [type |-> "local", config |-> "c1"]
    /\ fetch_adapter(<<"m">>) = [type |-> "adls", config |-> "c2"]

\* the positions of the document's entries that carry namespace, config and a type
\* that is none of the known tags
UnknownTypeEntries(doc) ==
    {j \in 1..Len(doc.adapters) :
        /\ Truthy(doc.adapters[j].namespace)
        /\ doc.adapters[j].config \notin {Absent, ""}
        /\ doc.adapters[j].type \notin {Absent, ""} \cup KnownTags}

\* the namespaces named by entries that carry namespace, config and a known tag
KnownTypeNamespaces(doc) ==
    {doc.adapters[j].namespace : j \in
        {k \in 1..Len(doc.adapters) :
            /\ Truthy(doc.adapters[k].namespace)
            /\ doc.adapters[k].config \notin {Absent, ""}
            /\ doc.adapters[k].type \in KnownTags}}

\* C12: an import mounts no entry whose type is none of the known tags: no adapter of
\* such a type enters the registry and a namespace named only by such entries keeps
\* its adapter and root container (or stays unmounted); these entries are collected in
\* document order, serialised, while the known-type entries of the document are
\* mounted; the list is the result only with does_return_error_list, else None is.
C12_UnknownTypesCollected ==
    [][(last'.op = "mount_from_config" /\ ~last'.doc.empty) =>
          LET doc == last'.doc
              unknown == UnknownTypeEntries(doc)
          IN  /\ \A i \in 1..Len(namespace_adapters') :
                    \/ namespace_adapters'[i].value.type \in KnownTags
                    \/ \E k \in 1..Len(namespace_adapters) :
                          namespace_adapters[k] = namespace_adapters'[i]
              /\ \A j \in unknown :
                    LET ns == doc.adapters[j].namespace
                    IN  ns \notin KnownTypeNamespaces(doc) =>
                          /\ ns \in Keys(namespace_adapters') <=> ns \in Mounted
                          /\ ns \in Mounted =>
                                /\ Get(namespace_adapters', ns) = Get(namespace_adapters, ns)
                                /\ Get(namespace_folders', ns) = Get(namespace_folders, ns)
              /\ KnownTypeNamespaces(doc) \subseteq Keys(namespace_adapters')
              /\ IF last'.flag
                 THEN /\ Len(last'.result) = Cardinality(unknown)
                      /\ \A j \in unknown :
                            last'.result[Cardinality({k \in unknown : k <= j})]
                                = [json |-> doc.adapters[j]]
                 ELSE last'.result = None]_vars

\* C12 witness: the two unknown-type entries of MixedDoc are returned in document
\* order, the namespace of the first stays unmounted and the adls entry is mounted
C12_Witness ==
    /\ last.op = "mount_from_config"
    /\ last.doc = MixedDoc
    /\ last.flag
    /\ last.result = <<[json |-> MixedDoc.adapters[1]], [json |-> MixedDoc.adapters[3]]>>
    /\ <<"n">> \notin Mounted
    /\ fetch_adapter(<<"m">>) = [type |-> "adls", config |-> "c2"]

====
